---- MODULE Spec2Model ----
(***************************************************************************)
(* Model of n8n/test-workflows.py: five webhook scenarios run in sequence  *)
(* by main(), each sending one HTTP POST and judging the reply, followed   *)
(* by a summary and the process exit status.                               *)
(***************************************************************************)
EXTENDS Integers, Sequences, FiniteSets, TLC

\* ------------------------------------------------------------------------
\* Bounds of the environment (the remote endpoints)
\* ------------------------------------------------------------------------

\* Longest time, in time units, an endpoint may let a request wait.
MaxDelay == 21

\* Number of times the suite is run against the same mocked endpoints.
MaxRuns == 2

\* Status codes an endpoint may answer with.
Statuses == {200, 201, 400, 422, 500}

\* ------------------------------------------------------------------------
\* Python values: JSON data as tagged records
\* ------------------------------------------------------------------------

JNull == [ty |-> "null"]
JNum(n) == [ty |-> "number", n |-> n]
JStr(s) == [ty |-> "string", s |-> s]
JBool(b) == [ty |-> "bool", b |-> b]
JList(q) == [ty |-> "list", items |-> q]
JDict(f) == [ty |-> "dict", fld |-> f]

\* The value of a local variable that has not been assigned yet.
Unset == [ty |-> "unset"]

\* Result of evaluating a Python expression: a value, or a raised exception.
Value(v) == [raised |-> FALSE, value |-> v]
Raised(cls, msg) == [raised |-> TRUE, cls |-> cls, msg |-> msg]

\* Response bodies the endpoints may send, as raw text.
HtmlBody == "<html>502 Bad Gateway</html>"
EmptyBody == ""
EmptyObjBody == "{}"
EchoBody == "{\"success\": true}"
FullScanBody == "{\"mockScan\": {\"totalScanned\": 100, \"filtered\": 10, \"queued\": 5, \"candidates\": [\"AAPL\"]}}"
NoCandidatesBody == "{\"mockScan\": {\"totalScanned\": 100, \"filtered\": 10, \"queued\": 5}}"
EmptyScanBody == "{\"mockScan\": {}}"
NullScanBody == "{\"mockScan\": null}"
CountScanBody == "{\"mockScan\": {\"totalScanned\": 100, \"filtered\": 10, \"queued\": 5, \"candidates\": 3}}"
ListBody == "[]"
NumberBody == "5"
StringBody == "\"mockScan queued\""

Bodies == {HtmlBody, EmptyBody, EmptyObjBody, EchoBody, FullScanBody,
           NoCandidatesBody, EmptyScanBody, NullScanBody, CountScanBody,
           ListBody, NumberBody, StringBody}

ScanCounts == [totalScanned |-> JNum(100), filtered |-> JNum(10), queued |-> JNum(5)]

\* response.json(): the body parsed as JSON, or JSONDecodeError.
json(text) ==
    CASE text = EmptyObjBody -> Value(JDict([k \in {} |-> JNull]))
      [] text = EchoBody -> Value(JDict([success |-> JBool(TRUE)]))
      [] text = FullScanBody ->
            Value(JDict([mockScan |-> JDict([totalScanned |-> JNum(100),
                                             filtered |-> JNum(10),
                                             queued |-> JNum(5),
                                             candidates |-> JList(<<JStr("AAPL")>>)])]))
      [] text = NoCandidatesBody -> Value(JDict([mockScan |-> JDict(ScanCounts)]))
      [] text = EmptyScanBody -> Value(JDict([mockScan |-> JDict([k \in {} |-> JNull])]))
      [] text = NullScanBody -> Value(JDict([mockScan |-> JNull]))
      [] text = CountScanBody ->
            Value(JDict([mockScan |-> JDict([totalScanned |-> JNum(100),
                                             filtered |-> JNum(10),
                                             queued |-> JNum(5),
                                             candidates |-> JNum(3)])]))
      [] text = ListBody -> Value(JList(<<>>))
      [] text = NumberBody -> Value(JNum(5))
      [] text = StringBody -> Value(JStr("mockScan queued"))
      [] OTHER -> Raised("JSONDecodeError", "Expecting value")

\* key in v
Contains(key, v) ==
    CASE v.ty = "dict" -> Value(key \in DOMAIN v.fld)
      [] v.ty = "list" -> Value(\E n \in 1..Len(v.items) : v.items[n] = JStr(key))
      [] v.ty = "string" -> Value(v.s = "mockScan queued" /\ key = "mockScan")
      [] OTHER -> Raised("TypeError", "argument is not iterable")

\* v[key] for a string key
GetItem(v, key) ==
    CASE v.ty = "dict" ->
            IF key \in DOMAIN v.fld THEN Value(v.fld[key]) ELSE Raised("KeyError", key)
      [] v.ty \in {"list", "string"} -> Raised("TypeError", "indices must be integers")
      [] OTHER -> Raised("TypeError", "object is not subscriptable")

\* len(v)
PyLen(v) ==
    CASE v.ty = "dict" -> Value(Cardinality(DOMAIN v.fld))
      [] v.ty = "list" -> Value(Len(v.items))
      [] v.ty = "string" -> Value(IF v.s = "AAPL" THEN 4 ELSE 15)
      [] OTHER -> Raised("TypeError", "object has no len()")

\* ------------------------------------------------------------------------
\* The scenario functions.  Each takes the result of its requests.post call
\* (a response, or the exception the call raised) and yields what the
\* function returns: (success, data), with the marker lines it printed.
\* ------------------------------------------------------------------------

N8N_BASE_URL == "https://n8n.anikamaher.com/webhook"

Ok == "ok"
Fail == "fail"

Return(success, data, out) ==
    [raised |-> FALSE, success |-> success, data |-> data, out |-> out]
Throw(e, out) ==
    [raised |-> TRUE, cls |-> e.cls, msg |-> e.msg, out |-> out]

\* A handler that catches nothing: the exception leaves the test function.
ExceptNothing(r) == r

\* except Exception as e: print the error, return False with its message.
ExceptException(r) ==
    IF r.raised
    THEN Return(FALSE, JDict([error |-> JStr(r.msg)]), Append(r.out, Fail))
    ELSE r

\* The failure detail of an unexpected status.
ErrorStatus(response) ==
    JDict([error |-> JStr(response.text), status |-> JNum(response.status_code)])

test_simple_webhook_request ==
    [url |-> "thub-test", timeout |-> 10,
     json |-> JDict([test |-> JStr("simple"), timestamp |-> JStr("now")])]

test_simple_webhook(r) ==
    ExceptException(
        IF r.raised THEN Throw(r, <<>>)
        ELSE LET response == r.value
                 j == json(response.text)
             IN IF response.status_code = 200
                THEN IF j.raised THEN Throw(j, <<Ok>>)
                     ELSE Return(TRUE, j.value, <<Ok>>)
                ELSE Return(FALSE, ErrorStatus(response), <<Fail>>))

test_deploy_ready_webhook_request ==
    [url |-> "test-webhook", timeout |-> 15,
     json |-> JDict([action |-> JStr("test"), source |-> JStr("python-test-script"),
                     timestamp |-> JStr("now")])]

test_deploy_ready_webhook(r) ==
    ExceptException(
        IF r.raised THEN Throw(r, <<>>)
        ELSE LET response == r.value
                 j == json(response.text)
             IN IF response.status_code = 200
                THEN IF j.raised THEN Throw(j, <<Ok>>)
                     ELSE Return(TRUE, j.value, <<Ok>>)
                ELSE Return(FALSE, ErrorStatus(response), <<Fail>>))

Symbols == <<JStr("AAPL"), JStr("MSFT"), JStr("GOOGL"), JStr("TSLA"),
             JStr("AMZN"), JStr("META"), JStr("NVDA")>>

\* A batch request with the timeout of the simple checks.
test_batch_analysis_request_short ==
    [url |-> "batch-analysis-trigger", timeout |-> 10,
     json |-> JDict([symbols |-> JList(Symbols), priority |-> JStr("normal"),
                     metadata |-> JDict([source |-> JStr("python-test-script"),
                                         test |-> JBool(TRUE),
                                         timestamp |-> JStr("now")])])]

test_batch_analysis_request ==
    [url |-> "batch-analysis-trigger", timeout |-> 20,
     json |-> JDict([symbols |-> JList(Symbols), priority |-> JStr("normal"),
                     metadata |-> JDict([source |-> JStr("python-test-script"),
                                         test |-> JBool(TRUE),
                                         timestamp |-> JStr("now")])])]

\* A batch test that fails on client errors only.
test_batch_analysis_lenient(r) ==
    ExceptException(
        IF r.raised THEN Throw(r, <<>>)
        ELSE LET response == r.value
                 j == json(response.text)
             IN IF response.status_code = 200
                THEN IF j.raised THEN Throw(j, <<Ok>>)
                     ELSE Return(TRUE, j.value, <<Ok>>)
                ELSE IF response.status_code >= 500
                     THEN Return(TRUE, ErrorStatus(response), <<Ok>>)
                     ELSE Return(FALSE, ErrorStatus(response), <<Fail>>))

test_batch_analysis(r) ==
    ExceptException(
        IF r.raised THEN Throw(r, <<>>)
        ELSE LET response == r.value
                 j == json(response.text)
             IN IF response.status_code = 200
                THEN IF j.raised THEN Throw(j, <<Ok>>)
                     ELSE Return(TRUE, j.value, <<Ok>>)
                ELSE Return(FALSE, ErrorStatus(response), <<Fail>>))

test_market_scan_action_request ==
    [url |-> "thub-test", timeout |-> 10,
     json |-> JDict([action |-> JStr("market_scan"),
                     filters |-> JDict([limit |-> JNum(10), minVolume |-> JNum(1000000),
                                        minPrice |-> JNum(5), maxPrice |-> JNum(500)]),
                     timestamp |-> JStr("now")])]

\* The four lines printed from data['mockScan']: the first failing
\* subscript or len() raises.
PrintMockScan(data) ==
    LET ms == GetItem(data, "mockScan")
        total == GetItem(ms.value, "totalScanned")
        filtered == GetItem(ms.value, "filtered")
        queued == GetItem(ms.value, "queued")
        cands == GetItem(ms.value, "candidates")
        n == PyLen(cands.value)
    IN IF ms.raised THEN ms
       ELSE IF total.raised THEN total
       ELSE IF filtered.raised THEN filtered
       ELSE IF queued.raised THEN queued
       ELSE IF cands.raised THEN cands
       ELSE n

test_market_scan_action(r) ==
    ExceptException(
        IF r.raised THEN Throw(r, <<>>)
        ELSE LET response == r.value
                 j == json(response.text)
                 data == j.value
                 has == Contains("mockScan", data)
                 shown == PrintMockScan(data)
             IN IF response.status_code = 200
                THEN IF j.raised THEN Throw(j, <<Ok>>)
                     ELSE IF has.raised THEN Throw(has, <<Ok>>)
                     ELSE IF has.value /\ shown.raised THEN Throw(shown, <<Ok>>)
                     ELSE Return(TRUE, data, <<Ok>>)
                ELSE Return(FALSE, ErrorStatus(response), <<Fail>>))

test_invalid_payload_request ==
    [url |-> "batch-analysis-trigger", timeout |-> 10,
     json |-> JDict([symbols |-> JList(<<>>), priority |-> JStr("normal")])]

\* An error-handling test that expects 200 like the other tests.
test_invalid_payload_expect200(r) ==
    ExceptException(
        IF r.raised THEN Throw(r, <<>>)
        ELSE LET response == r.value
                 j == json(response.text)
             IN IF response.status_code = 200
                THEN Return(TRUE, JDict([handled_correctly |-> JBool(TRUE)]), <<Ok>>)
                ELSE IF j.raised THEN Throw(j, <<Fail>>)
                     ELSE Return(FALSE, j.value, <<Fail>>))

\* An error-handling test that takes a failed request for a rejection.
test_invalid_payload_error_passes(r) ==
    IF r.raised
    THEN Return(TRUE, JDict([handled_correctly |-> JBool(TRUE)]), <<Ok>>)
    ELSE LET response == r.value
             j == json(response.text)
         IN IF response.status_code # 200
            THEN Return(TRUE, JDict([handled_correctly |-> JBool(TRUE)]), <<Ok>>)
            ELSE IF j.raised
                 THEN Return(FALSE, JDict([error |-> JStr(j.msg)]), <<Fail, Fail>>)
                 ELSE Return(FALSE, j.value, <<Fail>>)

test_invalid_payload(r) ==
    ExceptException(
        IF r.raised THEN Throw(r, <<>>)
        ELSE LET response == r.value
                 j == json(response.text)
             IN IF response.status_code # 200
                THEN Return(TRUE, JDict([handled_correctly |-> JBool(TRUE)]), <<Ok>>)
                ELSE IF j.raised THEN Throw(j, <<Fail>>)
                     ELSE Return(FALSE, j.value, <<Fail>>))

\* The list of tests of main(), in declaration order.
tests == <<"Simple Webhook", "Deploy-Ready Webhook", "Batch Analysis",
           "Market Scan Action", "Error Handling">>

\* The request the i-th test function posts.
request(i) ==
    CASE i = 1 -> test_simple_webhook_request
      [] i = 2 -> test_deploy_ready_webhook_request
      [] i = 3 -> test_batch_analysis_request
      [] i = 4 -> test_market_scan_action_request
      [] i = 5 -> test_invalid_payload_request

\* The i-th test function, resumed with the result of its post.
test_func(i, r) ==
    CASE i = 1 -> test_simple_webhook(r)
      [] i = 2 -> test_deploy_ready_webhook(r)
      [] i = 3 -> test_batch_analysis(r)
      [] i = 4 -> test_market_scan_action(r)
      [] i = 5 -> test_invalid_payload(r)

\* ------------------------------------------------------------------------
\* State
\* ------------------------------------------------------------------------

VARIABLES
    pc,           \* position of the process: idle, loop, waiting, returned,
                  \* sleep, main_returned, raised, exited
    i,            \* index into tests of the for loop of main()
    results,      \* main(): list of (test_name, success)
    success,      \* main(): success of the last call of a test function
    data,         \* main(): data of the last call of a test function
    inflight,     \* the request waiting for its reply, with the time waited
    reply,        \* what the last requests.post call produced
    sent,         \* every request posted so far
    pauses,       \* the duration of every time.sleep so far
    stdout,       \* the marker lines printed so far
    summary,      \* main(): len(results), successful, failed once computed
    main_ret,     \* the value main() returned
    exit_status,  \* the status given to sys.exit
    endpoint,     \* what the endpoint of each test does: anything, or one
                  \* fixed reply (a mocked endpoint)
    run,          \* the number of the current call of main()
    prev          \* the results of the call of main() before this one

vars == <<pc, i, results, success, data, inflight, reply, sent, pauses, stdout,
          summary, main_ret, exit_status, endpoint, run, prev>>

\* The variables of the environment, which no step of the program writes.
env == <<endpoint, run, prev>>

\* An endpoint that may do anything.
Anything == [any |-> TRUE]

\* The endpoint of the current test allows the post to end with r.
Allows(r) == endpoint[i] = Anything \/ endpoint[i] = r

None == <<>>
Some(x) == <<x>>

Init ==
    /\ pc = "idle"
    /\ i = 1
    /\ results = <<>>
    /\ success = FALSE
    /\ data = Unset
    /\ inflight = None
    /\ reply = None
    /\ sent = <<>>
    /\ pauses = <<>>
    /\ stdout = <<>>
    /\ summary = None
    /\ main_ret = None
    /\ exit_status = None
    /\ endpoint = [n \in 1..Len(tests) |-> Anything]
    /\ run = 1
    /\ prev = <<>>

\* ------------------------------------------------------------------------
\* main() and the process around it
\* ------------------------------------------------------------------------

\* A main() that keeps its results in a list that outlives the call.
Start_keep_results ==
    /\ pc = "idle"
    /\ pc' = "loop"
    /\ results' = results
    /\ i' = 1
    /\ UNCHANGED <<success, data, inflight, reply, sent, pauses, stdout,
                   summary, main_ret, exit_status>>
    /\ UNCHANGED env

\* __main__ calls main(): results = [], the loop starts at the first test.
Start ==
    /\ pc = "idle"
    /\ pc' = "loop"
    /\ results' = <<>>
    /\ i' = 1
    /\ UNCHANGED <<success, data, inflight, reply, sent, pauses, stdout,
                   summary, main_ret, exit_status>>
    /\ UNCHANGED env

\* main() calls the next test function, which posts its request and blocks.
Call ==
    /\ pc = "loop"
    /\ i <= Len(tests)
    /\ inflight' = Some([req |-> request(i), elapsed |-> 0])
    /\ sent' = Append(sent, request(i))
    /\ pc' = "waiting"
    /\ UNCHANGED <<i, results, success, data, reply, pauses, stdout,
                   summary, main_ret, exit_status>>
    /\ UNCHANGED env

\* One time unit passes while the request waits.
Tick ==
    /\ pc = "waiting"
    /\ inflight[1].elapsed < inflight[1].req.timeout
    /\ inflight[1].elapsed < MaxDelay
    /\ inflight' = Some([inflight[1] EXCEPT !.elapsed = @ + 1])
    /\ UNCHANGED <<pc, i, results, success, data, reply, sent, pauses, stdout,
                   summary, main_ret, exit_status>>
    /\ UNCHANGED env

\* requests.post ends with r; the test function runs to its end.  What it
\* returns is assigned to success, data; an exception it lets out ends main().
Resume(r) ==
    LET out == test_func(i, r)
    IN /\ reply' = Some(r)
       /\ inflight' = None
       /\ stdout' = stdout \o out.out
       /\ IF out.raised
          THEN /\ pc' = "raised"
               /\ UNCHANGED <<success, data>>
          ELSE /\ pc' = "returned"
               /\ success' = out.success
               /\ data' = out.data
       /\ UNCHANGED <<i, results, sent, pauses, summary, main_ret, exit_status>>
       /\ UNCHANGED env

\* The endpoint answers with a status code and a body.
Respond ==
    /\ pc = "waiting"
    /\ \E status \in Statuses, text \in Bodies :
          /\ Allows(Value([status_code |-> status, text |-> text]))
          /\ Resume(Value([status_code |-> status, text |-> text]))

\* The connection fails: refused, DNS, TLS.
ConnectFail ==
    /\ pc = "waiting"
    /\ Allows(Raised("ConnectionError", "connection failed"))
    /\ Resume(Raised("ConnectionError", "connection failed"))

\* A post without a timeout: the wait is never cut short.
TimedOut_never ==
    /\ pc = "waiting"
    /\ FALSE
    /\ Resume(Raised("Timeout", "timed out"))

\* The timeout of the request expires.
TimedOut ==
    /\ pc = "waiting"
    /\ inflight[1].elapsed = inflight[1].req.timeout
    /\ Allows(Raised("Timeout", "timed out"))
    /\ Resume(Raised("Timeout", "timed out"))

\* A result list that takes the newest result first.
AppendResult_prepend ==
    /\ pc = "returned"
    /\ results' = <<(<<tests[i], success>>)>> \o results
    /\ pc' = "sleep"
    /\ UNCHANGED <<i, success, data, inflight, reply, sent, pauses, stdout,
                   summary, main_ret, exit_status>>
    /\ UNCHANGED env

\* results.append((test_name, success))
AppendResult ==
    /\ pc = "returned"
    /\ results' = Append(results, <<tests[i], success>>)
    /\ pc' = "sleep"
    /\ UNCHANGED <<i, success, data, inflight, reply, sent, pauses, stdout,
                   summary, main_ret, exit_status>>
    /\ UNCHANGED env

\* A loop that stops at the first failed test.
Sleep_break ==
    /\ pc = "sleep"
    /\ pauses' = Append(pauses, 1)
    /\ i' = IF success THEN i + 1 ELSE Len(tests) + 1
    /\ pc' = "loop"
    /\ UNCHANGED <<results, success, data, inflight, reply, sent, stdout,
                   summary, main_ret, exit_status>>
    /\ UNCHANGED env

\* A loop that runs a failed test a second time.
Sleep_retry ==
    /\ pc = "sleep"
    /\ pauses' = Append(pauses, 1)
    /\ i' = IF ~success /\ Len(sent) = i THEN i ELSE i + 1
    /\ pc' = "loop"
    /\ UNCHANGED <<results, success, data, inflight, reply, sent, stdout,
                   summary, main_ret, exit_status>>
    /\ UNCHANGED env

\* time.sleep(1), then the loop moves to the next test.
Sleep ==
    /\ pc = "sleep"
    /\ pauses' = Append(pauses, 1)
    /\ i' = i + 1
    /\ pc' = "loop"
    /\ UNCHANGED <<results, success, data, inflight, reply, sent, stdout,
                   summary, main_ret, exit_status>>
    /\ UNCHANGED env

\* sum(1 for _, success in results if success)
successful_count(rs) == Cardinality({n \in 1..Len(rs) : rs[n][2]})

\* A failed count that counts every result.
failed_count_all(rs) == Len(rs)

\* sum(1 for _, success in results if not success)
failed_count(rs) == Cardinality({n \in 1..Len(rs) : ~rs[n][2]})

\* A main() that reports success as soon as one test passed.
main_return_any(rs) == successful_count(rs) > 0

\* return successful == len(results)
main_return(rs) == successful_count(rs) = Len(rs)

\* A summary that does not wait for the end of the loop.
Summary_early ==
    /\ pc = "loop"
    /\ summary' = Some([total |-> Len(results),
                        successful |-> successful_count(results),
                        failed |-> failed_count(results)])
    /\ main_ret' = Some(main_return(results))
    /\ pc' = "main_returned"
    /\ UNCHANGED <<i, results, success, data, inflight, reply, sent, pauses,
                   stdout, exit_status>>
    /\ UNCHANGED env

\* After the loop: the summary is computed and printed, main() returns.
Summary ==
    /\ pc = "loop"
    /\ i > Len(tests)
    /\ summary' = Some([total |-> Len(results),
                        successful |-> successful_count(results),
                        failed |-> failed_count(results)])
    /\ main_ret' = Some(main_return(results))
    /\ pc' = "main_returned"
    /\ UNCHANGED <<i, results, success, data, inflight, reply, sent, pauses,
                   stdout, exit_status>>
    /\ UNCHANGED env

\* sys.exit(0 if success else 1)
exit_code(ok) == IF ok THEN 0 ELSE 1

\* The process ends: sys.exit, or an uncaught exception (status 1).
Exit ==
    /\ pc \in {"main_returned", "raised"}
    /\ exit_status' = Some(IF pc = "raised" THEN 1 ELSE exit_code(main_ret[1]))
    /\ pc' = "exited"
    /\ UNCHANGED <<i, results, success, data, inflight, reply, sent, pauses,
                   stdout, summary, main_ret>>
    /\ UNCHANGED env

Next ==
    \/ Start
    \/ Call
    \/ Tick
    \/ Respond
    \/ ConnectFail
    \/ TimedOut
    \/ AppendResult
    \/ Sleep
    \/ Summary
    \/ Exit

Spec == Init /\ [][Next]_vars
\* ------------------------------------------------------------------------
\* The suite against mocked endpoints: each endpoint always gives the same
\* reply, and main() is called MaxRuns times.
\* ------------------------------------------------------------------------

MockReplies ==
    {Value([status_code |-> 200, text |-> EchoBody]),
     Value([status_code |-> 200, text |-> HtmlBody]),
     Value([status_code |-> 500, text |-> HtmlBody]),
     Value([status_code |-> 422, text |-> EchoBody]),
     Raised("ConnectionError", "connection failed"),
     Raised("Timeout", "timed out")}

MockInit ==
    /\ pc = "idle"
    /\ i = 1
    /\ results = <<>>
    /\ success = FALSE
    /\ data = Unset
    /\ inflight = None
    /\ reply = None
    /\ sent = <<>>
    /\ pauses = <<>>
    /\ stdout = <<>>
    /\ summary = None
    /\ main_ret = None
    /\ exit_status = None
    /\ endpoint \in [1..Len(tests) -> MockReplies]
    /\ run = 1
    /\ prev = <<>>

\* main() has returned and is called again.  The caller keeps the results of
\* the call that ended; the locals summary and return value of that call are
\* gone, and results and i are whatever main() makes them when it starts.
Rerun ==
    /\ pc = "main_returned"
    /\ run < MaxRuns
    /\ run' = run + 1
    /\ prev' = results
    /\ summary' = None
    /\ main_ret' = None
    /\ pc' = "idle"
    /\ UNCHANGED <<i, results, success, data, inflight, reply, sent, pauses,
                   stdout, exit_status, endpoint>>

MockNext ==
    \/ Start
    \/ Call
    \/ Tick
    \/ Respond
    \/ ConnectFail
    \/ TimedOut
    \/ AppendResult
    \/ Sleep
    \/ Summary
    \/ Exit
    \/ Rerun

MockSpec == MockInit /\ [][MockNext]_vars

\* The process runs on by itself, time passes while a request waits and its
\* timeout fires; whether and when an endpoint answers is left open.
Fairness ==
    /\ WF_vars(Call)
    /\ WF_vars(Tick)
    /\ WF_vars(TimedOut)
    /\ WF_vars(AppendResult)
    /\ WF_vars(Sleep)
    /\ WF_vars(Summary)
    /\ WF_vars(Exit)

FairSpec == Init /\ [][Next]_vars /\ Fairness

\* ------------------------------------------------------------------------
\* Properties
\* ------------------------------------------------------------------------

\* The last post got an HTTP response / ended in a transport error.
GotResponse == reply # None /\ ~reply[1].raised
GotError == reply # None /\ reply[1].raised
Status == reply[1].value.status_code

\* The i-th test function has just returned; reply is the reply it judged.
Judged(n) == pc = "returned" /\ i = n

AllPassed == \A n \in 1..Len(results) : results[n][2]
Completed == pc \in {"main_returned", "exited"}

\* C1: the exit status is 0 iff each of the five results passed and 1
\* otherwise, and main() returns exactly that boolean.
C1_ExitIffAllPassed ==
    /\ main_ret # None => Len(results) = 5 /\ main_ret[1] = AllPassed
    /\ exit_status # None =>
          /\ main_ret # None
          /\ exit_status[1] = (IF AllPassed THEN 0 ELSE 1)

C1_Witness == pc = "exited" /\ exit_status = Some(0) /\ Len(results) = 5 /\ AllPassed

\* C2: in the error-handling test a response with status 200 gives
\* passed = false and a response with any other status gives passed = true.
C2_NegativeInversion ==
    /\ Judged(5) /\ GotResponse => success = (Status # 200)
    /\ pc = "sleep" /\ i = 5 /\ GotResponse =>
          results[5] = <<"Error Handling", Status # 200>>

C2_Witness ==
    /\ pc = "sleep" /\ i = 5 /\ GotResponse /\ Status = 400
    /\ results[5][2]

\* C3 as claimed: in the error-handling test a transport error gives
\* passed = true.
C3_TransportErrorPasses == Judged(5) /\ GotError => success

\* C3 as amended: in the error-handling test a transport error gives
\* passed = false, with the error message as the detail.
C3_TransportErrorFails ==
    Judged(5) /\ GotError =>
        /\ ~success
        /\ data = JDict([error |-> JStr(reply[1].msg)])

C3_Witness == Judged(5) /\ GotError /\ reply[1].cls = "Timeout" /\ ~success

\* C4: in each of the first four tests passed = true iff a response was
\* received and its status is 200, whatever else the reply holds.
C4_PassIffStatus200 ==
    \A n \in 1..4 : Judged(n) => (success <=> (GotResponse /\ Status = 200))

\* C5: whether the body parses as JSON does not change the verdict: the
\* verdict on a response is the verdict on the same status with the body {}.
C5_ParseDoesNotChangeVerdict ==
    \A n \in 1..5 :
        Judged(n) /\ GotResponse =>
            success = test_func(n, Value([status_code |-> Status,
                                          text |-> EmptyObjBody])).success

\* C6: in the market-scan test a 200 response with a JSON object gets the
\* verdict of the same response without mockScan, whatever mockScan holds.
C6_MockScanDisplayOnly ==
    Judged(4) /\ GotResponse /\ Status = 200
        /\ ~json(reply[1].value.text).raised
        /\ json(reply[1].value.text).value.ty = "dict" =>
            success = test_func(4, Value([status_code |-> 200,
                                          text |-> EmptyObjBody])).success

\* C7: no exception leaves a test function, and a finished run has recorded
\* exactly one result for each declared test.
C7_OneResultEach ==
    /\ pc # "raised"
    /\ Completed =>
          /\ Len(results) = Len(tests)
          /\ \A n \in 1..Len(tests) :
                Cardinality({m \in 1..Len(results) : results[m][1] = tests[n]}) = 1

C7_Witness ==
    /\ pc = "exited"
    /\ Len(results) = 5
    /\ GotError

\* C8: in the summary passed + failed = total = 5, with passed and failed the
\* numbers of true and false results, and the exit status is 0 iff failed = 0.
C8_SummaryAdds ==
    /\ summary # None =>
          /\ summary[1].successful + summary[1].failed = summary[1].total
          /\ summary[1].total = Len(tests)
          /\ summary[1].successful = Cardinality({n \in 1..5 : results[n][2] = TRUE})
          /\ summary[1].failed = Cardinality({n \in 1..5 : results[n][2] = FALSE})
    /\ exit_status # None =>
          /\ summary # None
          /\ (exit_status[1] = 0 <=> summary[1].failed = 0)

C8_Witness ==
    /\ pc = "exited"
    /\ summary # None
    /\ summary[1].failed = 2
    /\ summary[1].successful = 3
    /\ exit_status = Some(1)

\* C9: a failed test does not end the loop: after a failed result the loop
\* goes on to call the next test, and main() gets to its summary only when
\* all five tests have posted their request and have their result.
C9_NoAbort ==
    [][ /\ (pc = "returned" /\ ~success) => (pc' = "sleep" /\ i' = i)
        /\ (pc = "sleep" /\ ~success /\ i < 5) => (pc' = "loop" /\ i' = i + 1)
        /\ (pc = "loop" /\ i <= 5) =>
              (pc' = "waiting" /\ i' = i /\ sent' = Append(sent, request(i)))
        /\ pc' = "main_returned" =>
              (Len(results) = 5 /\ \A n \in 1..5 : sent[n] = request(n))
      ]_vars

C9_Witness ==
    /\ pc = "waiting"
    /\ i = 2
    /\ ~results[1][2]
    /\ sent = <<request(1), request(2)>>

\* C10: no test is retried: each test posts its request at most once, also
\* after a timeout, a failed connection or an unexpected status, and a
\* finished run has posted exactly 5 requests, one for each test.
C10_NoRetry ==
    /\ \A n \in 1..5 : Cardinality({m \in 1..Len(sent) : sent[m] = request(n)}) <= 1
    /\ Len(sent) <= 5
    /\ Completed =>
          /\ Len(sent) = 5
          /\ \A n \in 1..5 : Cardinality({m \in 1..Len(sent) : sent[m] = request(n)}) = 1

C10_Witness ==
    /\ pc = "exited"
    /\ Len(sent) = 5
    /\ GotError
    /\ \E n \in 1..4 : ~results[n][2]
\* The timeout each test is to give its request, in declaration order.
ConfiguredTimeouts == <<10, 15, 20, 10, 10>>

GotTimeout == GotError /\ reply[1].cls = "Timeout"

\* C11: a request left without a reply for the configured timeout of its
\* test (10, 15, 20, 10, 10) ends in a transport error: the test fails, its
\* detail holds the error message and no status, and the request is not sent
\* again.  No request waits longer than its timeout.
C11_TimeoutIsTransportError ==
    /\ [](pc = "waiting" =>
            /\ inflight[1].req.timeout = ConfiguredTimeouts[i]
            /\ inflight[1].elapsed <= ConfiguredTimeouts[i])
    /\ [][(pc = "waiting" /\ GotTimeout' /\ pc' # "waiting") =>
            /\ inflight[1].elapsed = ConfiguredTimeouts[i]
            /\ pc' = "returned"
            /\ ~success'
            /\ data'.ty = "dict"
            /\ DOMAIN data'.fld = {"error"}
            /\ data'.fld["error"] = JStr(reply'[1].msg)
            /\ sent' = sent
            /\ Cardinality({m \in 1..Len(sent) : sent[m] = request(i)}) = 1
         ]_vars
    /\ [](pc \in {"returned", "sleep"} /\ GotTimeout =>
            Cardinality({m \in 1..Len(sent) : sent[m] = request(i)}) = 1)

C11_Witness ==
    /\ Judged(3)
    /\ GotTimeout
    /\ ~success
    /\ data = JDict([error |-> JStr("timed out")])

\* C14: the tests run one after the other in declaration order: at most one
\* request is in flight, a request is posted only when every earlier test has
\* its result in the list, the list only grows at its end, and its n-th
\* entry is the result of the n-th declared test.
C14_SequentialInOrder ==
    /\ [](/\ Len(inflight) <= 1
          /\ (inflight # None <=> pc = "waiting")
          /\ \A n \in 1..Len(results) : results[n][1] = tests[n]
          /\ \A n \in 1..Len(sent) : sent[n] = request(n)
          /\ pc = "waiting" => (i = Len(sent) /\ Len(results) = i - 1))
    /\ [][/\ sent' # sent =>
                (Len(results) = Len(sent) /\ sent' = Append(sent, request(Len(results) + 1)))
          /\ results' # results =>
                (Len(results') = Len(results) + 1
                 /\ SubSeq(results', 1, Len(results)) = results
                 /\ inflight = None)
         ]_vars

C14_Witness ==
    /\ pc = "waiting"
    /\ i = 5
    /\ Len(results) = 4
    /\ Len(sent) = 5
    /\ \E n \in 1..4 : ~results[n][2]

\* The state of the orchestrator: Idle before main() runs, Running during
\* the loop, Completed from the summary on.
Phase ==
    CASE pc = "idle" -> 0
      [] pc \in {"loop", "waiting", "returned", "sleep"} -> 1
      [] OTHER -> 2

\* C15: the orchestrator goes from Idle to Running to Completed and never
\* back; requests are posted only while Running; the summary exists exactly
\* in Completed, is computed from the five recorded results and does not
\* change afterwards.
C15_IdleRunningCompleted ==
    /\ [](/\ pc # "raised"
          /\ (summary # None <=> Phase = 2)
          /\ Phase # 1 => inflight = None
          /\ Phase = 0 => sent = <<>>
          /\ summary # None => (Len(results) = 5 /\ summary[1].total = 5))
    /\ [][/\ Phase' \in {Phase, Phase + 1}
          /\ Phase' <= 2
          /\ sent' # sent => (Phase = 1 /\ Phase' = 1)
          /\ Phase = 2 => (summary' = summary /\ results' = results /\ main_ret' = main_ret)
         ]_vars

C15_Witness ==
    /\ pc = "exited"
    /\ summary = Some([total |-> 5, successful |-> 4, failed |-> 1])
    /\ Len(sent) = 5
\* C16: when a test has failed, its detail holds the status code of the
\* response if one was received, with the body of the response, and the
\* transport error if there was one.
C16_FailureDetail ==
    pc = "returned" /\ ~success =>
        /\ data.ty = "dict"
        /\ "error" \in DOMAIN data.fld
        /\ GotResponse =>
              /\ "status" \in DOMAIN data.fld
              /\ data.fld["status"] = JNum(Status)
              /\ data.fld["error"] = JStr(reply[1].value.text)
        /\ GotError => data.fld["error"] = JStr(reply[1].msg)

\* C17: every pause lasts 1 time unit, no request is in flight during a
\* pause, and pauses lie only between two tests: one before each of the
\* tests 2..5, four in a finished run.
C17_PausesOnlyBetween ==
    /\ \A n \in 1..Len(pauses) : pauses[n] = 1
    /\ pc = "sleep" => inflight = None
    /\ pc \in {"waiting", "returned", "sleep"} => Len(pauses) = i - 1
    /\ Len(pauses) <= Len(tests) - 1
    /\ Completed => Len(pauses) = Len(tests) - 1

\* C18: a run that has started gets to its end whatever the endpoints do:
\* the process exits with a status, with a result for each of the five tests,
\* and each test function has printed at least one outcome line.
C18_Terminates ==
    /\ (pc = "loop" /\ i = 1) ~>
          (/\ pc = "exited"
           /\ exit_status # None
           /\ Len(results) = 5
           /\ Len(stdout) >= 5)
    /\ [][pc = "waiting" /\ pc' # "waiting" =>
             (pc' = "returned" /\ Len(stdout') > Len(stdout))]_vars

C18_Witness ==
    /\ pc = "exited"
    /\ exit_status = Some(1)
    /\ Len(results) = 5
    /\ Len(stdout) >= 5
    /\ GotTimeout
IsResponse(r) == ~r.raised

\* The mock of the claim: 500 for the batch analysis alone, the other
\* endpoints as in a run where everything passes (200 with a JSON body for
\* the other valid requests, a rejection of the empty symbol list).
Batch500Only ==
    /\ IsResponse(endpoint[3]) /\ endpoint[3].value.status_code = 500
    /\ \A n \in {1, 2, 4} :
          endpoint[n] = Value([status_code |-> 200, text |-> EchoBody])
    /\ IsResponse(endpoint[5]) /\ endpoint[5].value.status_code # 200

\* C12: with 500 for the batch analysis alone, the batch test fails with a
\* detail holding status 500, it is the only failed result of the run, and
\* the exit status is 1.
C12_Batch500 ==
    Batch500Only =>
        /\ Judged(3) => (~success /\ data.ty = "dict"
                         /\ "status" \in DOMAIN data.fld
                         /\ data.fld["status"] = JNum(500))
        /\ \A n \in 1..Len(results) :
              ~results[n][2] <=> results[n][1] = "Batch Analysis"
        /\ pc = "main_returned" =>
              (Len(results) = 5 /\ summary[1].failed = 1 /\ main_ret = Some(FALSE))
        /\ pc = "exited" => exit_status = Some(1)

C12_Witness ==
    /\ Batch500Only
    /\ pc = "exited"
    /\ exit_status = Some(1)
    /\ Len(results) = 5
    /\ ~results[3][2]

\* C13: against endpoints that always give the same reply, a further run of
\* the suite ends with the passed flags of the run before it, test by test.
C13_SameVerdictsTwice ==
    run > 1 /\ Completed =>
        /\ Len(prev) = 5
        /\ Len(results) = 5
        /\ \A n \in 1..5 : results[n] = prev[n]

C13_Witness ==
    /\ run = 2
    /\ pc = "exited"
    /\ Len(results) = 5
    /\ results = prev
    /\ \E n, m \in 1..5 : results[n][2] /\ ~results[m][2]
====
